---- MODULE Spec2Model ----
(***************************************************************************)
(* Model of the feed crawler of src/scrapper.py: the browser-session       *)
(* manager (WebDriverManager), the crawl driver (Scrapper.get_new_posts),  *)
(* the scroll-and-collect loop (get_feed_posts), the structural parser     *)
(* (get_lead_from_feed_post and its helpers) and the watermark truncation  *)
(* (get_new_posts_from_recent).                                            *)
(*                                                                         *)
(* Python values.  A str is a sequence of symbols; a symbol is one         *)
(* character, except that a literal of the source (the tracking marker,    *)
(* the text sentinels) is one symbol.  A list is a sequence.  None is a    *)
(* value distinct from every str.  An operation that can raise returns a   *)
(* result [exc, val]: exc = "none" and the value, or the exception's name. *)
(* exc = "hang" stands for a call that never returns.                      *)
(***************************************************************************)
EXTENDS Integers, Sequences, FiniteSets, TLC

None == <<"<None>">>

\* bool(v) of a str or None
Truthy(v) == v # None /\ v # <<>>

Ok(v) == [exc |-> "none", val |-> v]
Raise(e) == [exc |-> e, val |-> None]
IsOk(r) == r.exc = "none"

\* the rest of a computation on the value of r, unless r raised
Bind(r, rest(_)) == IF IsOk(r) THEN rest(r.val) ELSE r

----------------------------------------------------------------------------
(* The parsed document (bs4).  A Tag has a name, attributes and contents;  *)
(* a NavigableString has only its string: reading .attrs or .contents of   *)
(* one raises AttributeError, subscripting it with an attribute name       *)
(* raises TypeError.                                                       *)

NoAttrs == [a \in {} |-> <<>>]

Tag(name, attrs, contents) ==
    [name |-> name, attrs |-> attrs, contents |-> contents, string |-> <<>>]

NavigableString(s) ==
    [name |-> "#text", attrs |-> NoAttrs, contents |-> <<>>, string |-> s]

IsTag(n) == n.name # "#text"

\* seq[i] of a Python list, i >= 0 or i = -1
ListItem(seq, i) ==
    IF i >= 0
    THEN IF i < Len(seq) THEN Ok(seq[i + 1]) ELSE Raise("IndexError")
    ELSE IF -i <= Len(seq) THEN Ok(seq[Len(seq) + 1 + i]) ELSE Raise("IndexError")

\* r.contents[i], r the result of the navigation so far
Item(r, i) ==
    IF ~IsOk(r) THEN r
    ELSE IF ~IsTag(r.val) THEN Raise("AttributeError")
    ELSE ListItem(r.val.contents, i)

\* r.contents
ContentsOf(r) ==
    IF ~IsOk(r) THEN r
    ELSE IF ~IsTag(r.val) THEN Raise("AttributeError")
    ELSE Ok(r.val.contents)

\* r.attrs
AttrsOf(r) ==
    IF ~IsOk(r) THEN r
    ELSE IF ~IsTag(r.val) THEN Raise("AttributeError")
    ELSE Ok(r.val.attrs)

RECURSIVE TextOf(_)
RECURSIVE TextOfAll(_)
\* node.text: the strings below the node, in document order
TextOf(n) == IF IsTag(n) THEN TextOfAll(n.contents) ELSE n.string
TextOfAll(seq) == IF seq = <<>> THEN <<>> ELSE TextOf(Head(seq)) \o TextOfAll(Tail(seq))

\* r.text
TextR(r) == IF ~IsOk(r) THEN r ELSE Ok(TextOf(r.val))

RECURSIVE FindIn(_, _, _, _)
\* the first tag in document order among the descendants of the nodes of seq
\* whose name is name and, when attr # "", whose attribute attr has value v
FindIn(seq, name, attr, v) ==
    IF seq = <<>> THEN [found |-> FALSE, node |-> NavigableString(<<>>)]
    ELSE LET n == Head(seq)
             hit == /\ IsTag(n)
                    /\ n.name = name
                    /\ (attr = "" \/ (attr \in DOMAIN n.attrs /\ n.attrs[attr] = v))
             below == FindIn(n.contents, name, attr, v)
         IN  IF hit THEN [found |-> TRUE, node |-> n]
             ELSE IF below.found THEN below
             ELSE FindIn(Tail(seq), name, attr, v)

----------------------------------------------------------------------------
(* str helpers *)

CftMarker == "?__cft__[0]"

NoTextAvailable == <<"No text available">>

RECURSIVE FindSym(_, _, _)
\* s.find(sym): the index (from 0) of the first occurrence at or after
\* position i + 1 of the sequence, or -1
FindSym(s, sym, i) ==
    IF i >= Len(s) THEN -1
    ELSE IF s[i + 1] = sym THEN i
    ELSE FindSym(s, sym, i + 1)

\* s[:k] of a str, k >= 0 or k = -1
SliceTo(s, k) ==
    IF k >= 0 THEN SubSeq(s, 1, IF k < Len(s) THEN k ELSE Len(s))
    ELSE SubSeq(s, 1, Len(s) - 1)

\* href[: href.find("?__cft__[0]")]
TrimLink(href) == SliceTo(href, FindSym(href, CftMarker, 0))

----------------------------------------------------------------------------
(* The structural parser *)

\* the value _get_post_info returns: None, or the list of nodes
PostInfoNone == [isNone |-> TRUE, list |-> <<>>]
PostInfoList(l) == [isNone |-> FALSE, list |-> l]

RECURSIVE ForDiv(_)
\* the for loop of _get_post_info over feed_post.contents[0].contents; when
\* no div qualifies the enclosing while loop repeats on the same feed_post
ForDiv(divs) ==
    IF divs = <<>> THEN Raise("hang")
    ELSE LET div == Head(divs)
         IN  IF ~IsTag(div) THEN Raise("AttributeError")
             ELSE IF "class" \notin DOMAIN div.attrs /\ div.contents # <<>>
             THEN LET c == ContentsOf(Item(Item(Ok(div), 0), 0))
                  IN  IF ~IsOk(c) THEN c
                      ELSE Ok(PostInfoList(IF c.val = <<>> THEN <<>> ELSE Tail(c.val)))
             ELSE ForDiv(Tail(divs))

RECURSIVE _get_post_info(_)
_get_post_info(feed_post) ==
    IF ~IsTag(feed_post) THEN Raise("TypeError")
    ELSE IF "style" \notin DOMAIN feed_post.attrs
    THEN \* KeyError: descend, or break when there is no child
         IF feed_post.contents = <<>> THEN Ok(PostInfoNone)
         ELSE _get_post_info(feed_post.contents[1])
    ELSE IF feed_post.attrs["style"] = <<>>
    THEN \* the IndexError of contents[0] is raised inside the try: not caught
         IF feed_post.contents = <<>> THEN Raise("IndexError")
         ELSE _get_post_info(feed_post.contents[1])
    ELSE IF "aria-hidden" \in DOMAIN feed_post.attrs THEN Ok(PostInfoNone)
    ELSE LET c == ContentsOf(Item(Ok(feed_post), 0))
         IN  IF ~IsOk(c) THEN c ELSE ForDiv(c.val)

\* post_info[0].contents[0].contents[1]
_get_user_info(post_info) == Item(Item(ListItem(post_info, 0), 0), 1)

\* tag.find("a")["href"], trimmed
AnchorHref(r) ==
    IF ~IsOk(r) THEN r
    ELSE IF ~IsTag(r.val) THEN Raise("TypeError")
    ELSE LET a == FindIn(r.val.contents, "a", "", <<>>)
         IN  IF ~a.found THEN Raise("TypeError")
             ELSE IF "href" \notin DOMAIN a.node.attrs THEN Raise("KeyError")
             ELSE Ok(TrimLink(a.node.attrs["href"]))

_get_post_link(user_info) == AnchorHref(Item(Item(Ok(user_info), 0), 1))

_get_user_link(user_info) == AnchorHref(Ok(user_info))

\* one round of the for loop of _get_post_text: the text el contributes
ElText(el, post_info) ==
    LET c0 == Item(Ok(el), 0)
        a0 == AttrsOf(c0)
        c00 == Item(c0, 0)
        cc == ContentsOf(c00)
    IN  IF ~IsOk(a0) THEN a0
        ELSE IF "data-ad-comet-preview" \in DOMAIN a0.val
        THEN IF ~IsOk(c00) THEN c00 ELSE Ok(TextOf(c00.val) \o <<"\n">>)
        ELSE IF el.name = "blockquote"
        THEN IF ~IsOk(c00) THEN c00 ELSE Ok(<<"Translated text: ">> \o TextOf(c00.val))
        ELSE IF ~IsOk(cc) THEN cc
        ELSE IF Len(cc.val) = 3
        THEN IF c00.val.name = "a" THEN Ok(<<>>)
             ELSE LET inner == Item(Item(c00, -1), 0)
                  IN  IF IsOk(inner) THEN Ok(TextOf(inner.val) \o <<"\n">>)
                      ELSE IF inner.exc = "IndexError"
                      THEN Ok(<<"Inserted message doesn't contain any text\n">>)
                      ELSE inner
        ELSE IF Len(c0.val.contents) = 3
        THEN LET msg == FindIn(el.contents, "div", "data-ad-comet-preview", <<"message">>)
                 ui == _get_user_info(post_info)
                 logged == IF IsOk(ui) THEN _get_post_link(ui.val) ELSE ui
             IN  IF msg.found THEN Ok(TextOf(msg.node))
                 ELSE IF ~IsOk(logged) THEN logged
                 ELSE Ok(<<>>)
        ELSE IF DOMAIN el.attrs = {"class", "id"} THEN Ok(<<>>)
        ELSE Ok(TextOf(el) \o <<"\n">>)

RECURSIVE PostTextLoop(_, _, _)
PostTextLoop(els, post_text, post_info) ==
    IF els = <<>> THEN Ok(post_text)
    ELSE Bind(ElText(Head(els), post_info),
              LAMBDA t : PostTextLoop(Tail(els), post_text \o t, post_info))

_get_post_text(post_info) ==
    Bind(ContentsOf(ListItem(post_info, 1)), LAMBDA els :
    Bind(PostTextLoop(els, <<>>, post_info), LAMBDA post_text :
         Ok(IF post_text # <<>> THEN post_text ELSE NoTextAvailable)))

\* the dict a parse returns: get_lead_from_feed_post builds a plain dict,
\* which has keys and no attributes
Dict(post_text, user_link, post_link) ==
    [type |-> "dict", post_text |-> post_text, user_link |-> user_link,
     post_link |-> post_link]

get_lead_from_feed_post(feed_post) ==
    Bind(_get_post_info(feed_post), LAMBDA post_info :
         IF post_info.isNone \/ post_info.list = <<>>
         THEN Ok(Dict(None, None, None))
         ELSE Bind(_get_user_info(post_info.list), LAMBDA user_info :
              Bind(_get_user_link(user_info), LAMBDA user_link :
              Bind(_get_post_link(user_info), LAMBDA post_link :
              Bind(_get_post_text(post_info.list), LAMBDA post_text :
                   Ok(Dict(post_text, user_link, post_link)))))))

\* "class" in attrs and contents and "hidden" not in contents[0].contents[0].attrs
\* and "aria-posinset" in attrs, evaluated left to right
_is_valid_post(post) ==
    IF "class" \notin DOMAIN post.attrs THEN Ok(FALSE)
    ELSE IF post.contents = <<>> THEN Ok(FALSE)
    ELSE LET a == AttrsOf(Item(Item(Ok(post), 0), 0))
         IN  IF ~IsOk(a) THEN a
             ELSE IF "hidden" \in DOMAIN a.val THEN Ok(FALSE)
             ELSE Ok("aria-posinset" \in DOMAIN post.attrs)

----------------------------------------------------------------------------
(* The documents the browser can render: post nodes built the way the      *)
(* parser walks them, and malformed variants of them.                      *)

Div(contents) == Tag("div", NoAttrs, contents)
DivA(attr, contents) == Tag("div", attr :> <<"v">>, contents)
Span(contents) == Tag("span", NoAttrs, contents)
Str(word) == NavigableString(<<word>>)
Anchor(href) == Tag("a", "href" :> href, <<Str("link")>>)

\* hrefs: with the tracking marker, without it, empty
Hrefs ==
    { <<"u", "1", CftMarker, "=", "a">>,
      <<"p", "1", CftMarker, "=", "b">>,
      <<"p", "2", CftMarker>>,
      <<"p", "3">>,
      <<>> }

\* children of the text block (post_info[1].contents)
ElPlain(word) == Div(<<Div(<<Span(<<Str(word)>>)>>)>>)
ElAdPreview(word) == Div(<<DivA("data-ad-comet-preview", <<Div(<<Str(word)>>)>>)>>)
ElBlockquote(word) == Tag("blockquote", NoAttrs, <<Div(<<Span(<<Str(word)>>)>>)>>)
ElThree(last) == Div(<<Div(<<Span(<<Span(<<>>), Span(<<>>), last>>)>>)>>)
ElThreeLink == Div(<<Div(<<Tag("a", NoAttrs, <<Span(<<>>), Span(<<>>), Span(<<>>)>>)>>)>>)
ElAlt(inner) == Div(<<Div(<<Span(<<>>), inner, Span(<<>>)>>)>>)
ElDecor == Tag("div", ("class" :> <<"c">>) @@ ("id" :> <<"i">>), <<Div(<<Span(<<>>)>>)>>)
ElLeaf == Div(<<>>)
ElFlat(word) == Div(<<Span(<<Str(word)>>)>>)

TextBlocks ==
    { <<>>,
      <<ElPlain("hello")>>,
      <<ElPlain("hello"), ElPlain("more")>>,
      <<ElAdPreview("ad")>>,
      <<ElAlt(Tag("div", "data-ad-comet-preview" :> <<"message">>, <<>>))>>,
      <<ElBlockquote("bonjour")>>,
      <<ElThree(Span(<<Str("quoted")>>))>>,
      <<ElThree(Span(<<>>))>>,
      <<ElThree(Str("bare"))>>,
      <<ElThreeLink>>,
      <<ElAlt(Tag("div", "data-ad-comet-preview" :> <<"message">>, <<Str("msg")>>))>>,
      <<ElAlt(Span(<<>>))>>,
      <<ElDecor>>,
      <<ElLeaf>>,
      <<ElFlat("flat")>>,
      <<Str("loose")>> }

\* the header of a post: post_info[0].contents[0].contents[1] is the user-info
\* node, whose first anchor is the author's and whose contents[0].contents[1]
\* holds the post's
UserInfo(user_href, post_href) ==
    Div(<<Div(<<Span(<<Anchor(user_href)>>), Span(<<Anchor(post_href)>>)>>)>>)
Header(user_info) == Div(<<Div(<<Span(<<>>), user_info>>)>>)

\* an article whose first-child chain reaches the styled node, the styled
\* node's contents[0].contents being divs
Article(attrs, styled) == Tag("div", attrs, <<Div(<<Div(<<styled>>)>>)>>)
Styled(attr, divs) == Tag("div", attr, <<Div(divs)>>)
Block(post_info) == Div(<<Div(<<Div(<<Span(<<>>)>> \o post_info)>>)>>)

ValidAttrs == ("class" :> <<"c">>) @@ ("aria-posinset" :> <<"1">>)
StyleAttr == "style" :> <<"s">>

Post(user_href, post_href, text_block) ==
    Article(ValidAttrs,
            Styled(StyleAttr,
                   <<DivA("class", <<>>),
                     Block(<<Header(UserInfo(user_href, post_href)), Div(text_block)>>)>>))

\* the well-formed posts
Posts == { Post(u, p, t) : u \in Hrefs, p \in Hrefs, t \in TextBlocks }

\* posts whose shape departs from the fixed structural offsets
OddPosts ==
    { \* the styled node is marked aria-hidden
      Article(ValidAttrs, Styled(StyleAttr @@ ("aria-hidden" :> <<"true">>), <<>>)),
      \* no node of the first-child chain has a style
      Article(ValidAttrs, Div(<<>>)),
      \* the chain ends in a string
      Article(ValidAttrs, Str("text")),
      \* an empty style and nothing below it
      Article(ValidAttrs, Tag("div", "style" :> <<>>, <<>>)),
      \* the styled node has no child
      Article(ValidAttrs, Tag("div", StyleAttr, <<>>)),
      \* every div under the styled node has a class
      Article(ValidAttrs, Styled(StyleAttr, <<DivA("class", <<Span(<<>>)>>)>>)),
      \* the post-info block is empty
      Article(ValidAttrs, Styled(StyleAttr, <<Block(<<>>)>>)),
      \* the post-info block has the header only
      Article(ValidAttrs, Styled(StyleAttr,
          <<Block(<<Header(UserInfo(<<"u", "1">>, <<"p", "1">>))>>)>>)),
      \* the header has fewer children than the user-info offset expects
      Article(ValidAttrs, Styled(StyleAttr,
          <<Block(<<Div(<<Div(<<Span(<<>>)>>)>>), Div(<<>>)>>)>>)),
      \* the user-info node has no anchor
      Article(ValidAttrs, Styled(StyleAttr,
          <<Block(<<Header(Div(<<Div(<<Span(<<>>), Span(<<>>)>>)>>)), Div(<<>>)>>)>>)),
      \* the author's anchor has no href
      Article(ValidAttrs, Styled(StyleAttr,
          <<Block(<<Header(Div(<<Div(<<Span(<<Tag("a", NoAttrs, <<>>)>>),
                                       Span(<<Anchor(<<"p", "1">>)>>)>>)>>)),
                    Div(<<>>)>>)>>)) }

\* articles the validity predicate rejects, and one it cannot evaluate
InvalidPosts ==
    { Article("class" :> <<"c">>, Div(<<>>)),
      Article("aria-posinset" :> <<"1">>, Div(<<>>)),
      Tag("div", ValidAttrs, <<>>),
      Tag("div", ValidAttrs, <<Div(<<DivA("hidden", <<>>)>>)>>),
      Tag("div", ValidAttrs, <<Div(<<>>)>>) }

----------------------------------------------------------------------------
(* Leads and their consumers *)

\* obj.name: a dict has keys, not attributes
GetAttr(obj, name) ==
    IF obj.type = "dict" THEN Raise("AttributeError") ELSE Ok(obj[name])

RECURSIVE LastLeadIndex(_, _, _)
\* [index for index, post in enumerate(recent)
\*        if post.post_link and post.post_link == group.last_post_link]
LastLeadIndex(recent, group, index) ==
    IF index >= Len(recent) THEN Ok(<<>>)
    ELSE Bind(GetAttr(recent[index + 1], "post_link"), LAMBDA post_link :
         Bind(LastLeadIndex(recent, group, index + 1), LAMBDA rest :
              IF Truthy(post_link) /\ post_link = group.last_post_link
              THEN Ok(<<index>> \o rest)
              ELSE Ok(rest)))

get_new_posts_from_recent(recent, group) ==
    Bind(LastLeadIndex(recent, group, 0), LAMBDA last_lead_index :
         IF last_lead_index # <<>>
         THEN Ok(SubSeq(recent, 1, last_lead_index[1]))
         ELSE Ok(recent))

RECURSIVE FeedLeads(_)
\* [self.get_lead_from_feed_post(post) for post in articles if self._is_valid_post(post)]
FeedLeads(articles) ==
    IF articles = <<>> THEN Ok(<<>>)
    ELSE Bind(_is_valid_post(Head(articles)), LAMBDA valid :
              IF ~valid THEN FeedLeads(Tail(articles))
              ELSE Bind(get_lead_from_feed_post(Head(articles)), LAMBDA lead :
                   Bind(FeedLeads(Tail(articles)), LAMBDA rest :
                        Ok(<<lead>> \o rest))))

\* list(set([lead for lead in recent_leads if lead.user_link and lead.post_link])):
\* every element of recent_leads is a dict of get_lead_from_feed_post, so the
\* filter raises on the first element it reads
EligibleLeads(recent_leads) ==
    IF recent_leads = <<>> THEN Ok(<<>>)
    ELSE LET user_link == GetAttr(Head(recent_leads), "user_link")
         IN  user_link

----------------------------------------------------------------------------
(* Cookies *)

\* add_cookie without its second if: "lax" is left as it is
SameSiteWithoutLax(v) ==
    IF v \in {"unspecified", "no_restriction"} THEN "Lax" ELSE v

\* the two ifs of add_cookie, in order
SameSite(v) ==
    LET first == IF v \in {"unspecified", "no_restriction"} THEN "Lax" ELSE v
    IN  IF first = "lax" THEN "Lax" ELSE first

\* add_cookie rewrites each cookie dict in place and injects it
Normalized(cookies) ==
    [i \in 1..Len(cookies) |-> [cookies[i] EXCEPT !.sameSite = SameSite(@)]]

Injected(cookies) ==
    [i \in 1..Len(cookies) |->
        <<"add_cookie", cookies[i].name, SameSite(cookies[i].sameSite)>>]

----------------------------------------------------------------------------
(* Bounds of the model *)

MaxGroups == 2
MaxFeed == 2
MaxScroll == 3
MaxRecent == 3
MaxMinCount == 2
MaxCookies == 2
MaxHref == 3

\* get_new_posts asks get_feed_posts for at least 8 posts
AtLeastPosts == 8

----------------------------------------------------------------------------
(* The inputs of a crawl *)

FB_MAIN_LINK == "https://main"

Groups ==
    { [group_link |-> "g1", last_post_link |-> None],
      [group_link |-> "g2", last_post_link |-> <<"p">>] }

RECURSIVE SeqsUpTo(_, _)
\* the sequences over S of length at most n
SeqsUpTo(S, n) ==
    IF n = 0 THEN { <<>> }
    ELSE LET shorter == SeqsUpTo(S, n - 1)
         IN  shorter \cup { Append(q, x) : q \in shorter, x \in S }

Cookie(name, sameSite) == [name |-> name, sameSite |-> sameSite]

CookieLists ==
    { <<>>, <<Cookie("c1", "unspecified"), Cookie("c2", "Strict")>> }

Accounts ==
    [username : {"user"}, password : {"secret"}, cookies : CookieLists,
     new_cookies : { <<>> }, groups : SeqsUpTo(Groups, MaxGroups)]

\* what driver.get_cookies() can answer after a login
FreshCookies == { <<>>, <<Cookie("c3", "no_restriction")>> }

\* the articles a feed can show during a crawl
FeedNodes ==
    { Post(<<"u", "1", CftMarker, "=", "a">>, <<"p", CftMarker>>, <<ElPlain("hello")>>),
      Post(<<"u", "1", CftMarker, "=", "a">>, <<"p", CftMarker>>,
           <<ElPlain("hello"), ElPlain("more")>>),
      Post(<<"u", "1", CftMarker, "=", "a">>, <<>>, <<>>),
      Article(ValidAttrs, Styled(StyleAttr @@ ("aria-hidden" :> <<"true">>), <<>>)),
      Article(ValidAttrs, Styled(StyleAttr, <<Block(<<Div(<<Div(<<Span(<<>>)>>)>>), Div(<<>>)>>)>>)),
      Article("class" :> <<"c">>, Div(<<>>)) }

Feeds == SeqsUpTo(FeedNodes, MaxFeed)

\* how one click on an expansion affordance, one hover over a placeholder
\* anchor can end
ClickOutcomes ==
    { "none", "StaleElementReferenceException", "ElementClickInterceptedException",
      "TimeoutException", "ElementNotInteractableException" }
ClickSuppressed ==
    { "StaleElementReferenceException", "ElementClickInterceptedException",
      "TimeoutException" }
HoverOutcomes ==
    { "none", "ElementNotInteractableException", "StaleElementReferenceException",
      "TimeoutException", "MoveTargetOutOfBoundsException" }
HoverSuppressed ==
    { "ElementNotInteractableException", "StaleElementReferenceException" }

----------------------------------------------------------------------------
(* State *)

VARIABLES
    fn,               \* the method that was called
    pc,               \* where the call stands
    arg,              \* the argument of the call, as it was when the call was made
    result,           \* how the call ended: [exc, val]
    settings,         \* whether the module global settings is bound
    account,          \* the account object passed by the caller
    browser,          \* "none", "running" or "quit"
    login_wall,       \* the login wall of the session: "unknown", "absent", "present"
    group_index,      \* position of the for loop over account.groups
    new_posts,        \* the dict get_new_posts fills, group_link -> leads
    at_least_posts,   \* parameter of get_feed_posts
    scroll_position,  \* local of get_feed_posts
    recent_leads,     \* local of get_feed_posts
    log               \* the calls made on the driver, in order

vars ==
    <<fn, pc, arg, result, settings, account, browser, login_wall, group_index,
      new_posts, at_least_posts, scroll_position, recent_leads, log>>

Running == [exc |-> "running", val |-> None]

NoAccount ==
    [username |-> "user", password |-> "secret", cookies |-> <<>>,
     new_cookies |-> <<>>, groups |-> <<>>]

\* the state of the crawl variables before any crawl step
CrawlIdle ==
    /\ result = Running
    /\ browser = "none"
    /\ login_wall = "unknown"
    /\ group_index = 0
    /\ new_posts = <<>>
    /\ scroll_position = 0
    /\ recent_leads = <<>>
    /\ log = <<>>

\* get_new_posts(account) is called
Init ==
    /\ fn = "get_new_posts"
    /\ pc = "WebDriverManager"
    /\ settings \in {"bound", "unbound"}
    /\ account \in Accounts
    /\ arg = account
    /\ at_least_posts = AtLeastPosts
    /\ CrawlIdle

----------------------------------------------------------------------------
(* get_new_posts *)

\* the exception leaves the with block: __exit__ runs next
Leave(e) ==
    /\ result' = Raise(e)
    /\ pc' = "__exit__"

\* WebDriverManager(account.proxy_url): the browser starts, or cannot
WebDriverManager__init__ ==
    /\ pc = "WebDriverManager"
    /\ \E started \in BOOLEAN :
          IF started
          THEN /\ browser' = "running"
               /\ log' = Append(log, <<"Chrome">>)
               /\ pc' = "__enter__"
               /\ UNCHANGED result
          ELSE /\ result' = Raise("WebDriverException")
               /\ pc' = "done"
               /\ UNCHANGED <<browser, log>>
    /\ UNCHANGED <<fn, arg, settings, account, login_wall, group_index, new_posts,
                   at_least_posts, scroll_position, recent_leads>>

\* __enter__: assert not navigator.webdriver.  An exception of __enter__
\* leaves the with statement before its body: __exit__ is not called
WebDriverManager__enter__ ==
    /\ pc = "__enter__"
    /\ log' = Append(log, <<"execute_script", "navigator.webdriver">>)
    /\ \E st \in BOOLEAN :
          IF st
          THEN /\ result' = Raise("AssertionError")
               /\ pc' = "done"
          ELSE /\ pc' = "handle_authorization"
               /\ UNCHANGED result
    /\ UNCHANGED <<fn, arg, settings, account, browser, login_wall, group_index,
                   new_posts, at_least_posts, scroll_position, recent_leads>>

\* where the for loop over account.groups goes after i groups
ForGroup(i) == IF i < Len(account.groups) THEN "load_group_page" ELSE "__exit__"

\* handle_login after the login message was found: the calls it makes while
\* the next form element (email, pass, loginbutton) is found; a missing one
\* raises NoSuchElementException, which the with block suppresses
LoginTyped(user, found) ==
    SubSeq(<< <<"send_keys", "email", user.username>>,
              <<"send_keys", "pass", user.password>>,
              <<"click", "loginbutton">>,
              <<"get_cookies">> >>,
           1, IF found = 3 THEN 4 ELSE found)

\* handle_authorization, with add_cookie and handle_login (a handle_login
\* that returns None and one that returns [] are both falsy: <<>>)
handle_authorization ==
    /\ pc = "handle_authorization"
    /\ IF settings = "unbound"
       THEN /\ Leave("NameError")
            /\ UNCHANGED <<account, login_wall, log, group_index>>
       ELSE \E consent \in BOOLEAN, wall \in BOOLEAN, found \in 0..3,
               fresh \in FreshCookies, after \in {"absent", "present"} :
               LET restored == account.cookies
                   opened == <<<<"get", FB_MAIN_LINK>>>> \o Injected(restored)
                   dismissed == IF consent THEN <<<<"click", "Decline optional cookies">>>>
                                ELSE <<>>
                   looked == <<<<"find_element", "You must log in to continue.",
                                 IF wall THEN "found" ELSE "NoSuchElementException">>>>
                   submitted == wall /\ found = 3
                   new_cookies == IF submitted THEN fresh ELSE <<>>
                   typed == IF wall THEN LoginTyped(account, found) ELSE <<>>
               IN  /\ (~wall => after = "absent" /\ found = 0)
                   /\ (wall /\ ~submitted => after = "present")
                   /\ (~submitted => fresh = <<>>)
                   /\ login_wall' = after
                   /\ account' =
                         [account EXCEPT
                            !.cookies = Normalized(restored),
                            !.new_cookies = IF new_cookies # <<>>
                                            THEN Normalized(new_cookies) ELSE @]
                   /\ log' = log \o opened \o dismissed \o looked \o typed
                                 \o (IF new_cookies # <<>> THEN Injected(new_cookies)
                                     ELSE <<>>)
                   /\ group_index' = 1
                   /\ pc' = ForGroup(0)
                   /\ UNCHANGED result
    /\ UNCHANGED <<fn, arg, settings, browser, new_posts,
                   at_least_posts, scroll_position, recent_leads>>

----------------------------------------------------------------------------
(* get_feed_posts *)

\* the group get_feed_posts works on
CurrentGroup == IF fn = "get_new_posts" THEN account.groups[group_index] ELSE arg

\* an exception leaves get_feed_posts: inside get_new_posts it leaves the
\* with block; a parse that never returns leaves nothing
Throw(e) ==
    /\ result' = Raise(e)
    /\ pc' = IF e = "hang" THEN "hung"
             ELSE IF fn = "get_new_posts" THEN "__exit__" ELSE "done"

\* load_group_page, then ESCAPE on the body and the locals of get_feed_posts.
\* find_element returns an element or raises NoSuchElementException, so the
\* while loop of load_group_page ends in its first round
load_group_page ==
    /\ pc = "load_group_page"
    /\ \E same_url \in BOOLEAN, feed \in BOOLEAN :
          IF ~same_url
          THEN /\ Throw("AssertionError")
               /\ log' = Append(log, <<"get", CurrentGroup.group_link>>)
               /\ UNCHANGED <<scroll_position, recent_leads>>
          ELSE IF ~feed
          THEN /\ Throw("NoSuchElementException")
               /\ log' = log \o << <<"get", CurrentGroup.group_link>>,
                                   <<"find_element", "feed">> >>
               /\ UNCHANGED <<scroll_position, recent_leads>>
          ELSE /\ log' = log \o << <<"get", CurrentGroup.group_link>>,
                                   <<"find_element", "feed">>,
                                   <<"send_keys", "body", "ESCAPE">> >>
               /\ scroll_position' = 1
               /\ recent_leads' = <<>>
               /\ pc' = "scroll"
               /\ UNCHANGED result
    /\ UNCHANGED <<fn, arg, settings, account, browser, login_wall, group_index,
                   new_posts, at_least_posts>>

\* get_new_posts stores what get_new_posts_from_recent made of the leads
\* under the group's link and goes on with the next group
Store(trunc) ==
    IF ~IsOk(trunc)
    THEN /\ Throw(trunc.exc)
         /\ UNCHANGED <<new_posts, group_index>>
    ELSE /\ new_posts' = (CurrentGroup.group_link :> trunc.val) @@ new_posts
         /\ group_index' = group_index + 1
         /\ pc' = ForGroup(group_index)
         /\ UNCHANGED result

\* get_feed_posts returns leads to its caller
Return(leads) ==
    IF fn = "get_new_posts"
    THEN Store(get_new_posts_from_recent(leads, CurrentGroup))
    ELSE /\ result' = Ok(leads)
         /\ pc' = "done"
         /\ UNCHANGED <<new_posts, group_index>>

\* the first part of a round of the while loop of get_feed_posts: scroll,
\* wait, click the expansion affordances, hover the placeholder anchors.  The
\* with blocks suppress some of the exceptions a click or a hover can raise
scroll_and_expand ==
    /\ pc = "scroll"
    /\ scroll_position <= MaxScroll
    /\ log' = Append(log, <<"execute_script", "scrollTo">>)
    /\ \E click \in ClickOutcomes, hover \in HoverOutcomes :
          IF click \notin ClickSuppressed \cup {"none"}
          THEN Throw(click) /\ hover = "none"
          ELSE IF hover \notin HoverSuppressed \cup {"none"}
          THEN Throw(hover)
          ELSE pc' = "parse" /\ UNCHANGED result
    /\ UNCHANGED <<fn, arg, settings, account, browser, login_wall, group_index,
                   new_posts, at_least_posts, scroll_position, recent_leads>>

\* lines 126-131: the filtered, deduplicated list replaces recent_leads;
\* return it when it is long enough, else scroll on
Filter(merged, eligible) ==
    IF ~IsOk(eligible)
    THEN /\ Throw(eligible.exc)
         /\ recent_leads' = merged
         /\ UNCHANGED <<scroll_position, new_posts, group_index>>
    ELSE /\ recent_leads' = eligible.val
         /\ IF Len(eligible.val) >= at_least_posts
            THEN /\ Return(eligible.val)
                 /\ UNCHANGED scroll_position
            ELSE /\ scroll_position' = scroll_position + 1
                 /\ pc' = "scroll"
                 /\ UNCHANGED <<result, new_posts, group_index>>

\* lines 121-125: recent_leads += the leads of the valid articles
Merge(parsed) ==
    IF ~IsOk(parsed)
    THEN /\ Throw(parsed.exc)
         /\ UNCHANGED <<recent_leads, scroll_position, new_posts, group_index>>
    ELSE Filter(recent_leads \o parsed.val, EligibleLeads(recent_leads \o parsed.val))

\* the second part of a round: parse the document, merge the leads of the
\* valid articles, filter, and return or scroll on
parse_and_merge ==
    /\ pc = "parse"
    /\ \E feed \in BOOLEAN, articles \in Feeds :
          IF ~feed
          THEN \* soup.find("div", {"role": "feed"}) is None
               /\ Throw("AttributeError")
               /\ articles = <<>>
               /\ UNCHANGED <<recent_leads, scroll_position, new_posts, group_index>>
          ELSE Merge(FeedLeads(articles))
    /\ UNCHANGED <<fn, arg, settings, account, browser, login_wall, at_least_posts,
                   log>>

\* __exit__: driver.quit(); the exception in flight, if any, goes on to the
\* caller, otherwise get_new_posts returns new_posts
WebDriverManager__exit__ ==
    /\ pc = "__exit__"
    /\ browser' = "quit"
    /\ log' = Append(log, <<"quit">>)
    /\ result' = IF result = Running THEN Ok(new_posts) ELSE result
    /\ pc' = "done"
    /\ UNCHANGED <<fn, arg, settings, account, login_wall, group_index, new_posts,
                   at_least_posts, scroll_position, recent_leads>>

----------------------------------------------------------------------------
(* Calls of single methods *)

\* the crawl variables of a call that makes no crawl
NoCrawl ==
    /\ settings = "bound"
    /\ account = NoAccount
    /\ at_least_posts = AtLeastPosts
    /\ CrawlIdle

crawl_vars ==
    <<settings, account, browser, login_wall, group_index, new_posts,
      at_least_posts, scroll_position, recent_leads, log>>

\* get_lead_from_feed_post(feed_post) is called on a post node
InitLead ==
    /\ fn = "get_lead_from_feed_post"
    /\ pc = "call"
    /\ arg \in Posts \cup OddPosts
    /\ NoCrawl

call_get_lead_from_feed_post ==
    /\ fn = "get_lead_from_feed_post"
    /\ pc = "call"
    /\ result' = get_lead_from_feed_post(arg)
    /\ pc' = IF result'.exc = "hang" THEN "hung" ELSE "done"
    /\ UNCHANGED <<fn, arg>>
    /\ UNCHANGED crawl_vars

SpecLead == InitLead /\ [][call_get_lead_from_feed_post]_vars

\* the post links of the leads handed to get_new_posts_from_recent, and the
\* watermarks of a group
PostLinks == { None, <<>>, <<"p">>, <<"q">> }

\* the elements of recent: leads as get_lead_from_feed_post builds them
Leads == { Dict(NoTextAvailable, <<"u">>, l) : l \in PostLinks }

\* get_new_posts_from_recent(recent, group) is called
InitRecent ==
    /\ fn = "get_new_posts_from_recent"
    /\ pc = "call"
    /\ arg \in [recent : SeqsUpTo(Leads, MaxRecent),
                group : [group_link : {"g1"}, last_post_link : PostLinks]]
    /\ NoCrawl

call_get_new_posts_from_recent ==
    /\ fn = "get_new_posts_from_recent"
    /\ pc = "call"
    /\ result' = get_new_posts_from_recent(arg.recent, arg.group)
    /\ pc' = "done"
    /\ UNCHANGED <<fn, arg>>
    /\ UNCHANGED crawl_vars

SpecRecent == InitRecent /\ [][call_get_new_posts_from_recent]_vars

\* the sameSite values of stored cookies: the export format's and the
\* browser's own
SameSiteValues == { "unspecified", "no_restriction", "lax", "Lax", "Strict", "None" }

StoredCookies == { Cookie(n, v) : n \in {"c1", "c2"}, v \in SameSiteValues }

\* add_cookie(cookies, driver) is called with a running browser; arg keeps
\* the list as it was at the call, account.cookies is the list object itself
InitCookie ==
    /\ fn = "add_cookie"
    /\ pc = "call"
    /\ arg \in SeqsUpTo(StoredCookies, MaxCookies)
    /\ settings = "bound"
    /\ account = [NoAccount EXCEPT !.cookies = arg]
    /\ at_least_posts = AtLeastPosts
    /\ result = Running
    /\ browser = "running"
    /\ login_wall = "unknown"
    /\ group_index = 0
    /\ new_posts = <<>>
    /\ scroll_position = 0
    /\ recent_leads = <<>>
    /\ log = <<>>

call_add_cookie ==
    /\ fn = "add_cookie"
    /\ pc = "call"
    /\ account' = [account EXCEPT !.cookies = Normalized(@)]
    /\ log' = log \o Injected(account.cookies)
    /\ result' = Ok(None)
    /\ pc' = "done"
    /\ UNCHANGED <<fn, arg, settings, browser, login_wall, group_index, new_posts,
                   at_least_posts, scroll_position, recent_leads>>

SpecCookie == InitCookie /\ [][call_add_cookie]_vars

\* the hrefs of the anchors of a user-info node: with the tracking marker at
\* any place, more than once, or not at all
LinkHrefs == SeqsUpTo({"a", "=", CftMarker}, MaxHref)

\* _get_user_link(user_info) or _get_post_link(user_info) is called on a
\* user-info node whose anchors carry the hrefs of arg
InitLink ==
    /\ fn \in {"_get_user_link", "_get_post_link"}
    /\ pc = "call"
    /\ arg \in [user_href : LinkHrefs, post_href : LinkHrefs]
    /\ NoCrawl

call_get_user_link ==
    /\ fn = "_get_user_link"
    /\ pc = "call"
    /\ result' = _get_user_link(UserInfo(arg.user_href, arg.post_href))
    /\ pc' = "done"
    /\ UNCHANGED <<fn, arg>>
    /\ UNCHANGED crawl_vars

call_get_post_link ==
    /\ fn = "_get_post_link"
    /\ pc = "call"
    /\ result' = _get_post_link(UserInfo(arg.user_href, arg.post_href))
    /\ pc' = "done"
    /\ UNCHANGED <<fn, arg>>
    /\ UNCHANGED crawl_vars

SpecLink == InitLink /\ [][call_get_user_link \/ call_get_post_link]_vars

\* get_feed_posts(driver, group, at_least_posts) is called with a running
\* browser
InitFeed ==
    /\ fn = "get_feed_posts"
    /\ pc = "load_group_page"
    /\ arg \in Groups
    /\ settings = "bound"
    /\ account = NoAccount
    /\ at_least_posts \in 0..MaxMinCount
    /\ result = Running
    /\ browser = "running"
    /\ login_wall = "absent"
    /\ group_index = 0
    /\ new_posts = <<>>
    /\ scroll_position = 0
    /\ recent_leads = <<>>
    /\ log = <<>>

NextFeed ==
    \/ load_group_page
    \/ scroll_and_expand
    \/ parse_and_merge

SpecFeed == InitFeed /\ [][NextFeed]_vars

Next ==
    \/ WebDriverManager__init__
    \/ WebDriverManager__enter__
    \/ handle_authorization
    \/ load_group_page
    \/ scroll_and_expand
    \/ parse_and_merge
    \/ WebDriverManager__exit__

Spec == Init /\ [][Next]_vars

----------------------------------------------------------------------------
(* Properties *)

\* entries of the log
Logged(entry) == \E i \in 1..Len(log) : log[i] = entry

\* the groups a page load was asked for
Navigated(group_link) == Logged(<<"get", group_link>>)

\* the (user_link, post_link) keys of the leads of a list that have both links
EligibleKeys(leads) ==
    { <<leads[i].user_link, leads[i].post_link>> :
        i \in { j \in 1..Len(leads) :
                  Truthy(leads[j].user_link) /\ Truthy(leads[j].post_link) } }

\* the least element of a non-empty set of numbers
Least(S) == CHOOSE k \in S : \A other \in S : k <= other

\* C2: for every lead sequence L and watermark w, get_new_posts_from_recent
\* returns the prefix of L before the first lead whose post_link equals w,
\* and L itself when w is null or matches no post_link
C2_ReferenceTruncation ==
    (fn = "get_new_posts_from_recent" /\ pc = "done") =>
        LET L == arg.recent
            w == arg.group.last_post_link
            hits == { k \in 1..Len(L) : w # None /\ L[k].post_link = w }
        IN  /\ IsOk(result)
            /\ result.val = IF hits # {} THEN SubSeq(L, 1, Least(hits) - 1) ELSE L

\* C5: once the leads parsed in a pass hold at least at_least_posts (one or
\* more) distinct eligible leads, get_feed_posts has returned, and what it
\* returned is exactly those distinct eligible leads
C5_ReturnsAtMinCount ==
    (/\ fn = "get_feed_posts"
     /\ at_least_posts >= 1
     /\ Cardinality(EligibleKeys(recent_leads)) >= at_least_posts) =>
        /\ pc = "done"
        /\ IsOk(result)
        /\ Len(result.val) = Cardinality(EligibleKeys(recent_leads))
        /\ EligibleKeys(result.val) = EligibleKeys(recent_leads)

\* C6: when get_new_posts has ended after the browser was started, the
\* browser has been quit
C6_BrowserReleased ==
    (fn = "get_new_posts" /\ pc = "done" /\ browser # "none") => browser = "quit"

\* C7: when the login wall is still there after the credentials of an
\* account with groups were submitted, get_new_posts ends with a failure, no
\* group feed is opened and no result entry is made
C7_FailedLoginStopsCrawl ==
    (/\ fn = "get_new_posts"
     /\ account.groups # <<>>
     /\ Logged(<<"click", "loginbutton">>)
     /\ login_wall = "present") =>
        /\ pc = "done" => ~IsOk(result)
        /\ \A i \in 1..Len(account.groups) : ~Navigated(account.groups[i].group_link)
        /\ new_posts = <<>>

\* get_new_posts ended with the failure of load_group_page on the group at
\* group_index
NavigationFailed ==
    /\ fn = "get_new_posts"
    /\ pc = "done"
    /\ group_index >= 1
    /\ result.exc \in {"AssertionError", "NoSuchElementException"}

\* C8: a navigation failure on one group leaves the other groups crawled:
\* each of them was navigated to and has its entry in the result
C8_OtherGroupsCrawled ==
    NavigationFailed =>
        \A j \in 1..Len(account.groups) :
            account.groups[j].group_link # account.groups[group_index].group_link =>
                /\ Navigated(account.groups[j].group_link)
                /\ account.groups[j].group_link \in DOMAIN new_posts

\* C10: get_lead_from_feed_post returns a lead for every post node: it never
\* raises and never fails to return
C10_NeverRaises ==
    (fn = "get_lead_from_feed_post" /\ pc # "call") => IsOk(result)

\* C11: every lead get_lead_from_feed_post returns has a non-empty string
\* as post_text, the early return for a hidden or unparseable node included
C11_PostTextNeverEmpty ==
    (fn = "get_lead_from_feed_post" /\ pc = "done" /\ IsOk(result)) =>
        (result.val.post_text # None /\ result.val.post_text # <<>>)

\* the reference mapping of sameSite values
RefSameSite(v) == IF v \in {"unspecified", "no_restriction", "lax"} THEN "Lax" ELSE v

\* C12: add_cookie injects every cookie of the list, in list order, with its
\* sameSite value mapped by the reference mapping ("unspecified",
\* "no_restriction" and "lax" to "Lax", any other value unchanged), and a
\* value that was normalized is left unchanged by normalizing it again
C12_CookiesNormalizedInOrder ==
    (fn = "add_cookie" /\ pc = "done") =>
        /\ IsOk(result)
        /\ Len(log) = Len(arg)
        /\ \A i \in 1..Len(arg) :
              /\ log[i] = <<"add_cookie", arg[i].name, RefSameSite(arg[i].sameSite)>>
              /\ SameSite(log[i][3]) = log[i][3]

\* add_cookie has injected a list with a "lax" cookie and, after it, one
\* whose value is passed through
C12_Witness ==
    /\ fn = "add_cookie"
    /\ pc = "done"
    /\ Len(arg) = 2
    /\ arg[1].sameSite = "lax"
    /\ arg[2].sameSite = "Strict"
    /\ Len(log) = 2

\* the href without the fragment that starts at the first tracking marker
RefTrim(href) ==
    LET hits == { k \in 1..Len(href) : href[k] = CftMarker }
    IN  IF hits = {} THEN href ELSE SubSeq(href, 1, Least(hits) - 1)

\* C13: the link _get_user_link and _get_post_link produce is the href
\* without the fragment that starts at the first "?__cft__[0]": the
\* characters before the marker when the href has one, the whole href when
\* it has none
C13_LinkTrimmed ==
    (fn \in {"_get_user_link", "_get_post_link"} /\ pc = "done") =>
        /\ IsOk(result)
        /\ result.val = RefTrim(IF fn = "_get_user_link" THEN arg.user_href
                                ELSE arg.post_href)

\* C14: when get_new_posts has ended, the account object is as it was at
\* the call: its cookies with their sameSite values, its other fields and
\* the watermark of each of its groups
C14_AccountOnlyRead ==
    (fn = "get_new_posts" /\ pc = "done") => account = arg

\* C16: while the leads parsed in a pass of get_feed_posts on a small group
\* hold some, but fewer than at_least_posts, distinct eligible leads, the
\* collection loop goes on: it has neither returned nor failed
C16_LoopsWithoutEnd ==
    (/\ fn = "get_feed_posts"
     /\ scroll_position >= 1
     /\ Cardinality(EligibleKeys(recent_leads)) >= 1
     /\ Cardinality(EligibleKeys(recent_leads)) < at_least_posts) =>
        pc \in {"scroll", "parse", "hung"}

\* the failures of a click or a hover that count as transient
Transient ==
    { "StaleElementReferenceException", "ElementClickInterceptedException",
      "TimeoutException" }

\* C17: no stale-element, click-intercepted or timed-out failure of a click
\* on an expansion affordance or of a hover over a placeholder anchor leaves
\* get_feed_posts
C17_TransientSuppressed ==
    (fn = "get_feed_posts" /\ pc = "done") => result.exc \notin Transient

\* the positions of the log at which a page was loaded, a cookie injected,
\* the login wall looked for
PageLoads == { j \in 1..Len(log) : log[j][1] = "get" }
Injections == { i \in 1..Len(log) : log[i][1] = "add_cookie" }
WallLookups ==
    { k \in 1..Len(log) : /\ log[k][1] = "find_element"
                          /\ log[k][2] = "You must log in to continue." }

\* C18: in a crawl of an account with stored cookies no page is loaded
\* before a cookie was injected, and the login wall is looked for on a page
\* that was loaded after the injection
C18_CookiesBeforeNavigation ==
    (fn = "get_new_posts" /\ arg.cookies # <<>>) =>
        /\ \A j \in PageLoads : \E i \in Injections : i < j
        /\ \A k \in WallLookups :
              \E i \in Injections, j \in PageLoads : i < j /\ j < k

\* the failures of the verification of load_group_page
VerificationFailures == { "AssertionError", "NoSuchElementException" }

\* C19: a failed verification in load_group_page (another address than the
\* requested one, no feed container) does not end the call, the round is
\* repeated; and the collection starts only after the group's page was
\* loaded and its feed container found
C19_RepeatsUntilVerified ==
    fn = "get_feed_posts" =>
        /\ pc = "done" => result.exc \notin VerificationFailures
        /\ scroll_position >= 1 =>
              (Navigated(arg.group_link) /\ Logged(<<"find_element", "feed">>))

\* how the lookup of the login message ended, and the steps of a login
WallFound == Logged(<<"find_element", "You must log in to continue.", "found">>)
WallAbsent ==
    Logged(<<"find_element", "You must log in to continue.", "NoSuchElementException">>)
LoginSteps ==
    << <<"send_keys", "email", arg.username>>, <<"send_keys", "pass", arg.password>>,
       <<"click", "loginbutton">>, <<"get_cookies">> >>

\* the four steps of a login are in the log, in their order
LoginStepsInOrder ==
    \E i \in 1..Len(log) :
       /\ log[i] = LoginSteps[1]
       /\ \E j \in (i + 1)..Len(log) :
             /\ log[j] = LoginSteps[2]
             /\ \E k \in (j + 1)..Len(log) :
                   /\ log[k] = LoginSteps[3]
                   /\ \E l \in (k + 1)..Len(log) : log[l] = LoginSteps[4]

\* C20: when the login message was found, the username was typed, then the
\* password, then the form submitted, then the cookies captured, and the
\* account carries the refreshed cookies; when it was not found, nothing was
\* typed, submitted or captured and no refreshed cookies are signalled.  The
\* consent button plays no part in either case
C20_LoginFlow ==
    fn = "get_new_posts" =>
        /\ WallFound =>
              /\ LoginStepsInOrder
              /\ account.new_cookies # <<>>
        /\ WallAbsent =>
              /\ \A i \in 1..Len(log) :
                    \A n \in 1..Len(LoginSteps) : log[i] # LoginSteps[n]
              /\ account.new_cookies = <<>>

----------------------------------------------------------------------------
(* Facts about the collected leads: the filter of get_feed_posts reads      *)
(* lead.user_link on the dicts get_lead_from_feed_post returns, so a pass   *)
(* that parsed a lead ends there with AttributeError.                       *)

\* between the rounds of a pass recent_leads is empty
NoLeadKept == pc \in {"scroll", "parse"} => recent_leads = <<>>

\* a pass that parsed a lead has ended with AttributeError
ParsedLeadRaises ==
    recent_leads # <<>> => (pc \in {"__exit__", "done"} /\ result.exc = "AttributeError")

\* get_feed_posts returns the empty list or does not return
FeedReturnsNothing ==
    (fn = "get_feed_posts" /\ pc = "done" /\ IsOk(result)) => result.val = <<>>

\* get_new_posts returns for an account without groups only, and an empty dict
CrawlReturnsNothing ==
    (fn = "get_new_posts" /\ pc = "done" /\ IsOk(result)) =>
        (account.groups = <<>> /\ result.val = <<>>)

\* an href that holds the tracking marker, and the empty href, are trimmed as
\* the reference says; any other href loses its last character
LinkTrimmedOrShortened ==
    (fn \in {"_get_user_link", "_get_post_link"} /\ pc = "done") =>
        LET href == IF fn = "_get_user_link" THEN arg.user_href ELSE arg.post_href
        IN  /\ IsOk(result)
            /\ result.val = IF href = <<>> \/ \E k \in 1..Len(href) : href[k] = CftMarker
                             THEN RefTrim(href)
                             ELSE SubSeq(href, 1, Len(href) - 1)


\* get_feed_posts returns no partial result: a returned list has at least
\* at_least_posts leads, whatever the scroll step
NoPartialResult ==
    (fn = "get_feed_posts" /\ pc = "done" /\ IsOk(result)) =>
        Len(result.val) >= at_least_posts

\* the transient failures of a click are suppressed; of a hover, only the
\* stale element: the only transient failure that leaves get_feed_posts is
\* the timeout of a hover
OnlyHoverTimeoutLeaves ==
    (fn = "get_feed_posts" /\ pc = "done" /\ result.exc \in Transient) =>
        (result.exc = "TimeoutException" /\ ClickSuppressed = Transient)

\* load_group_page makes one round: the group's page is loaded once, and
\* the collection starts only after its address and feed container were
\* verified
OneRoundOnly ==
    fn = "get_feed_posts" =>
        /\ Cardinality(PageLoads) <= 1
        /\ scroll_position >= 1 =>
              (Navigated(arg.group_link) /\ Logged(<<"find_element", "feed">>))

\* what holds of the login: once the form was submitted, the username, the
\* password, the submit and the capture came in this order; refreshed
\* cookies are on the account only after a capture; without the login
\* message nothing is typed, submitted, captured or signalled.  A login
\* message without the whole form leaves the login unfinished, silently
LoginFlowWhenFormComplete ==
    fn = "get_new_posts" =>
        /\ Logged(<<"click", "loginbutton">>) =>
              LoginStepsInOrder
        /\ account.new_cookies # <<>> => Logged(<<"get_cookies">>)
        /\ WallAbsent =>
              /\ \A i \in 1..Len(log) :
                    \A n \in 1..Len(LoginSteps) : log[i] # LoginSteps[n]
              /\ account.new_cookies = <<>>

====
